---- MODULE Spec2Model ----
(***************************************************************************)
(* The HTTP-triggered function `main` of api/oauthfunction/__init__.py:    *)
(* it resolves two credentials (secret store first, process environment    *)
(* on any error), exchanges them for an OAuth2 client-credentials token    *)
(* at a fixed endpoint and returns the serialized token.                   *)
(*                                                                         *)
(* One invocation is one call of main.  The host may run several           *)
(* invocations at once; each has its own frame of local variables.  The    *)
(* secret store, the process environment and the token endpoint are the    *)
(* surroundings: what each call to them returns (or raises) is chosen      *)
(* nondeterministically, independently of the arguments, because main      *)
(* itself places no condition on them.                                     *)
(*                                                                         *)
(* Reading of the source: lines 27-34 are followed by an `except           *)
(* Exception as e` clause (lines 36-37) that has no `try:` of its own.     *)
(* The model reads it as the handler of the statements 27-34, the only     *)
(* statements it can have been written for.                                *)
(***************************************************************************)
EXTENDS Integers, Sequences, FiniteSets, TLC

\* Number of invocations of main the host runs (possibly interleaved).
NumInvocations == 2

\* The call counters kept for the record saturate at this value.
MaxCount == 2

Invocations == 1 .. NumInvocations

(***************************************************************************)
(* Python values held by main's local names.                               *)
(***************************************************************************)
PyStr(s) == [type |-> "str", value |-> s]

PyInt(n) == [type |-> "int", int |-> n]

None == [type |-> "NoneType"]

\* A local name that no assignment has bound yet.
Unbound == [type |-> "unbound"]

\* line 11
token_url == "https://api.os.uk/oauth2/token/v1"

(***************************************************************************)
(* The process environment (os.environ): a mapping from the names that     *)
(* are set to their string values.  main only reads it.                    *)
(***************************************************************************)
EnvNames == {"project_api_key", "client_secret"}

EnvValues == [project_api_key |-> {"ek"}, client_secret |-> {"es"}]

\* Every environment: each name is unset, or set to one of its values.
Environs ==
  UNION { { e \in [D -> {"ek", "es"}] : \A n \in D : e[n] \in EnvValues[n] }
          : D \in SUBSET EnvNames }

\* environ.get(name): the value when the name is set, None otherwise.
EnvironGetOrEmpty(env, name) ==
  IF name \in DOMAIN env THEN PyStr(env[name]) ELSE PyStr("")

EnvironGet(env, name) ==
  IF name \in DOMAIN env THEN PyStr(env[name]) ELSE None

(***************************************************************************)
(* The secret store.  get_secret(name) returns a KeyVaultSecret or raises. *)
(***************************************************************************)
VaultValues(name) ==
  IF name = "project-api-key" THEN {"vk"} ELSE {"vs"}

KeyVaultSecret(name, v) == [name |-> name, value |-> v]

\* The `.value` attribute of a fetched secret (lines 20, 22).
SecretName(secret) == PyStr(secret.name)

SecretValue(secret) == PyStr(secret.value)

(***************************************************************************)
(* The token endpoint as seen through OAuth2Session.fetch_token: it        *)
(* returns the decoded token payload (a dict, in key order) or raises.     *)
(***************************************************************************)
Item(k, v) == [key |-> k, value |-> v]

Tokens ==
  { << Item("access_token", PyStr("tok123")),
       Item("token_type", PyStr("bearer")),
       Item("expires_in", PyInt(3600)) >>,
    << Item("access_token", PyStr("tok456")),
       Item("token_type", PyStr("bearer")) >> }

\* What fetch_token can raise: the kind of failure, the HTTP status when
\* there was a response, and the exception's message.
Exc(kind, status, message) ==
  [kind |-> kind, status |-> status, message |-> message]

ExchangeErrors ==
  { Exc("unreachable", 0, "Connection refused"),
    Exc("rejected", 401, "(invalid_client) bad client credentials"),
    Exc("rejected", 401, "(missing_token) Missing access token parameter."),
    Exc("malformed", 200, "(missing_token) Missing access token parameter.") }

\* str(e), line 37
Str(e) == e.message

(***************************************************************************)
(* json.dumps of a token payload, line 34.                                 *)
(***************************************************************************)
DumpsValue(v) ==
  IF v.type = "str" THEN ToString(v.value) ELSE ToString(v.int)

DumpsItem(it) == ToString(it.key) \o ": " \o DumpsValue(it.value)

RECURSIVE DumpsItems(_)
DumpsItems(items) ==
  IF items = << >> THEN ""
  ELSE IF Len(items) = 1 THEN DumpsItem(Head(items))
  ELSE DumpsItem(Head(items)) \o ", " \o DumpsItems(Tail(items))

Dumps(token) == "{" \o DumpsItems(token) \o "}"

(***************************************************************************)
(* Values main hands back to the host.                                     *)
(***************************************************************************)
Pending == [type |-> "pending"]

HttpResponse(body, status_code) ==
  [type |-> "HttpResponse", status_code |-> status_code, body |-> body]

\* An exception that leaves main uncaught.
Raised(e) == [type |-> "raised", exc |-> e]

\* line 34: return json.dumps(token)
SuccessReturn(token) == [type |-> "str", value |-> Dumps(token)]

\* lines 36-37: except Exception as e: return func.HttpResponse(str(e), status_code=500)
Reraise(e) == Raised(e)

ExchangeHandler(e) == HttpResponse(Str(e), 500)

(***************************************************************************)
(* State.                                                                  *)
(***************************************************************************)
VARIABLES
  environ,   \* the process environment
  pc,        \* pc[i]: the statement invocation i executes next
  frame,     \* frame[i]: invocation i's local names project_api_key, client_secret
  ret,       \* ret[i]: what invocation i returned to the host
  secrets,   \* secrets[i]: the KeyVaultSecrets the store returned to i, in order
  raisedAt,  \* raisedAt[i]: the statement of the try block (14-22) that raised
  envRead,   \* envRead[i]: the environment names invocation i has read
  request,   \* request[i]: the arguments of i's latest fetch_token call
  reply,     \* reply[i]: what i's fetch_token call returned or raised
  calls      \* calls[i][s]: how often i executed statement s (saturating)

vars ==
  << environ, pc, frame, ret, secrets, raisedAt, envRead, request, reply, calls >>

TryLines == {"identity", "secret_client", "get_key", "get_secret"}

NoRequest == [sent |-> FALSE]

NoReply == [kind |-> "none"]

TokenReply(t) == [kind |-> "token", token |-> t]

ErrorReply(e) == [kind |-> "error", exc |-> e]

EmptyFrame == [project_api_key |-> Unbound, client_secret |-> Unbound]

\* The frame invocation i works on: main's names are local to the call.
SharedFrame(i) == frame[1]

Frame(i) == frame[i]

Init ==
  /\ environ \in Environs
  /\ pc = [i \in Invocations |-> "idle"]
  /\ frame = [i \in Invocations |-> EmptyFrame]
  /\ ret = [i \in Invocations |-> Pending]
  /\ secrets = [i \in Invocations |-> << >>]
  /\ raisedAt = [i \in Invocations |-> "none"]
  /\ envRead = [i \in Invocations |-> {}]
  /\ request = [i \in Invocations |-> NoRequest]
  /\ reply = [i \in Invocations |-> NoReply]
  /\ calls = [i \in Invocations |-> [s \in TryLines \cup {"fetch_token"} |-> 0]]

Count(i, s) ==
  [calls EXCEPT ![i][s] = IF @ < MaxCount THEN @ + 1 ELSE @]

\* Where control goes after statement s completes normally.
NextLine(s) ==
  CASE s = "idle" -> "identity"
    [] s = "identity" -> "secret_client"
    [] s = "secret_client" -> "get_key"
    [] s = "get_key" -> "get_secret"
    [] s = "get_secret" -> "fetch_token"
    [] s = "fetch_token" -> "done"

\* Where control goes after statement s raises: the bare except of line 23
\* falls through to line 27; the handler of line 36 returns.
AfterRaiseRetry(s) == s

AfterRaise(s) ==
  IF s \in TryLines THEN "fetch_token" ELSE "done"

\* lines 23-25: both names are rebound from the environment.
ExceptKeepFetched(f, env) ==
  [ project_api_key |->
      IF f.project_api_key = Unbound
        THEN EnvironGet(env, "project_api_key") ELSE f.project_api_key,
    client_secret |-> EnvironGet(env, "client_secret") ]

ExceptFallback(f, env) ==
  [ project_api_key |-> EnvironGet(env, "project_api_key"),
    client_secret |-> EnvironGet(env, "client_secret") ]

(***************************************************************************)
(* Actions.                                                                *)
(***************************************************************************)
\* The host calls main(req); the request's content is not used.
Invoke(i) ==
  /\ pc[i] = "idle"
  /\ pc' = [pc EXCEPT ![i] = NextLine("idle")]
  /\ UNCHANGED << environ, frame, ret, secrets, raisedAt, envRead, request,
                  reply, calls >>

\* A statement s of the try block raises: lines 23-25 run, then line 27 on.
TryRaises(i, s) ==
  /\ pc[i] = s
  /\ calls' = Count(i, s)
  /\ raisedAt' = [raisedAt EXCEPT ![i] = s]
  /\ frame' = [frame EXCEPT ![i] = ExceptFallback(Frame(i), environ)]
  /\ envRead' = [envRead EXCEPT ![i] = EnvNames]
  /\ pc' = [pc EXCEPT ![i] = AfterRaise(s)]
  /\ UNCHANGED << environ, ret, secrets, request, reply >>

\* A statement s of the try block that binds no credential completes.
TryStep(i, s) ==
  /\ pc[i] = s
  /\ calls' = Count(i, s)
  /\ pc' = [pc EXCEPT ![i] = NextLine(s)]
  /\ UNCHANGED << environ, frame, ret, secrets, raisedAt, envRead, request,
                  reply >>

\* line 16: identity = DefaultAzureCredential()
CreateIdentity(i) == TryStep(i, "identity")

CreateIdentityRaises(i) == TryRaises(i, "identity")

\* line 18: secretClient = SecretClient(vault_url=..., credential=identity)
CreateSecretClient(i) == TryStep(i, "secret_client")

CreateSecretClientRaises(i) == TryRaises(i, "secret_client")

\* line 20: project_api_key = secretClient.get_secret('project-api-key').value
GetProjectApiKey(i) ==
  /\ pc[i] = "get_key"
  /\ \E v \in VaultValues("project-api-key") :
       LET secret == KeyVaultSecret("project-api-key", v) IN
         /\ secrets' = [secrets EXCEPT ![i] = Append(@, secret)]
         /\ frame' = [frame EXCEPT
                        ![i] = [Frame(i) EXCEPT !.project_api_key = SecretValue(secret)]]
  /\ calls' = Count(i, "get_key")
  /\ pc' = [pc EXCEPT ![i] = NextLine("get_key")]
  /\ UNCHANGED << environ, ret, raisedAt, envRead, request, reply >>

GetProjectApiKeyRaises(i) == TryRaises(i, "get_key")

\* line 22: client_secret = secretClient.get_secret('client-secret').value
GetClientSecret(i) ==
  /\ pc[i] = "get_secret"
  /\ \E v \in VaultValues("client-secret") :
       LET secret == KeyVaultSecret("client-secret", v) IN
         /\ secrets' = [secrets EXCEPT ![i] = Append(@, secret)]
         /\ frame' = [frame EXCEPT
                        ![i] = [Frame(i) EXCEPT !.client_secret = SecretValue(secret)]]
  /\ calls' = Count(i, "get_secret")
  /\ pc' = [pc EXCEPT ![i] = NextLine("get_secret")]
  /\ UNCHANGED << environ, ret, raisedAt, envRead, request, reply >>

GetClientSecretRaises(i) == TryRaises(i, "get_secret")

\* lines 31-32: the arguments of oauth.fetch_token
FetchTokenArgs(f) ==
  [ sent |-> TRUE,
    token_url |-> token_url,
    client_id |-> f.project_api_key,
    client_secret |-> f.client_secret ]

\* lines 27-34: the exchange returns a token, main returns its serialization.
FetchToken(i) ==
  /\ pc[i] = "fetch_token"
  /\ request' = [request EXCEPT ![i] = FetchTokenArgs(Frame(i))]
  /\ \E t \in Tokens :
       /\ reply' = [reply EXCEPT ![i] = TokenReply(t)]
       /\ ret' = [ret EXCEPT ![i] = SuccessReturn(t)]
  /\ calls' = Count(i, "fetch_token")
  /\ pc' = [pc EXCEPT ![i] = NextLine("fetch_token")]
  /\ UNCHANGED << environ, frame, secrets, raisedAt, envRead >>

\* lines 27-32, 36-37: the exchange raises, the handler builds the response.
FetchTokenRaises(i) ==
  /\ pc[i] = "fetch_token"
  /\ request' = [request EXCEPT ![i] = FetchTokenArgs(Frame(i))]
  /\ \E e \in ExchangeErrors :
       /\ reply' = [reply EXCEPT ![i] = ErrorReply(e)]
       /\ ret' = [ret EXCEPT ![i] = ExchangeHandler(e)]
  /\ calls' = Count(i, "fetch_token")
  /\ pc' = [pc EXCEPT ![i] = AfterRaise("fetch_token")]
  /\ UNCHANGED << environ, frame, secrets, raisedAt, envRead >>

Step(i) ==
  \/ Invoke(i)
  \/ CreateIdentity(i)
  \/ CreateIdentityRaises(i)
  \/ CreateSecretClient(i)
  \/ CreateSecretClientRaises(i)
  \/ GetProjectApiKey(i)
  \/ GetProjectApiKeyRaises(i)
  \/ GetClientSecret(i)
  \/ GetClientSecretRaises(i)
  \/ FetchToken(i)
  \/ FetchTokenRaises(i)

Next == \E i \in Invocations : Step(i)

Spec == Init /\ [][Next]_vars

\* A started invocation runs on: every call main makes returns or raises.
Running(i) == pc[i] # "idle" /\ Step(i)

FairSpec == Spec /\ \A i \in Invocations : WF_vars(Running(i))

(***************************************************************************)
(* Vocabulary of the properties.                                           *)
(***************************************************************************)
Done(i) == pc[i] = "done"

PastTry(i) == pc[i] \in {"fetch_token", "done"}

StoreFailed(i) == raisedAt[i] \in TryLines

\* The value of an environment name as the process holds it, None when unset.
Held(name) ==
  IF name \in DOMAIN environ
    THEN [type |-> "str", value |-> environ[name]]
    ELSE [type |-> "NoneType"]

EnvironPair(f) ==
  /\ f.project_api_key = Held("project_api_key")
  /\ f.client_secret = Held("client_secret")

\* Both secrets were returned to invocation i, and f holds exactly their values.
StorePair(i, f) ==
  /\ Len(secrets[i]) = 2
  /\ secrets[i][1].name = "project-api-key"
  /\ secrets[i][2].name = "client-secret"
  /\ f.project_api_key = [type |-> "str", value |-> secrets[i][1].value]
  /\ f.client_secret = [type |-> "str", value |-> secrets[i][2].value]

\* The credentials of invocation i's fetch_token call.
Sent(i) ==
  [project_api_key |-> request[i].client_id,
   client_secret |-> request[i].client_secret]

NonEmptyStr(v) == v.type = "str" /\ v.value # ""

(***************************************************************************)
(* C1: whenever the token exchange succeeds, the value main returns is an  *)
(* HTTP response with status 200 whose body is the JSON serialization of   *)
(* the token payload the endpoint returned, whichever way the credentials  *)
(* were resolved.                                                          *)
(***************************************************************************)
C1_SuccessIsHttp200 ==
  \A i \in Invocations :
    reply[i].kind = "token" =>
      ret[i] = [type |-> "HttpResponse", status_code |-> 200,
                body |-> Dumps(reply[i].token)]

C3_FallbackToEnviron ==
  \A i \in Invocations :
    StoreFailed(i) =>
      /\ PastTry(i)
      /\ EnvironPair(frame[i])
      /\ Done(i) =>
           /\ calls[i]["fetch_token"] = 1
           /\ request[i].sent
           /\ EnvironPair(Sent(i))
           /\ reply[i].kind # "none"

C3_Witness ==
  \E i \in Invocations :
    /\ raisedAt[i] = "identity"
    /\ Done(i)
    /\ "client_secret" \notin DOMAIN environ
    /\ "project_api_key" \in DOMAIN environ

(***************************************************************************)
(* C4: when the secret-store path completes, the credentials passed to the *)
(* exchange are exactly the values of 'project-api-key' and                *)
(* 'client-secret' the store returned, and the invocation never reads the  *)
(* environment.                                                            *)
(***************************************************************************)
C4_StoreCredentialsUsed ==
  \A i \in Invocations :
    (PastTry(i) /\ ~StoreFailed(i)) =>
      /\ StorePair(i, frame[i])
      /\ envRead[i] = {}
      /\ request[i].sent => StorePair(i, Sent(i))
      /\ Done(i) => request[i].sent

C4_Witness ==
  \E i \in Invocations :
    /\ Done(i)
    /\ ~StoreFailed(i)
    /\ reply[i].kind = "token"
    /\ DOMAIN environ = EnvNames

(***************************************************************************)
(* C5: fetch_token is only ever called with a non-empty string for both    *)
(* the client id and the client secret.                                    *)
(***************************************************************************)
C5_CredentialsNonEmpty ==
  \A i \in Invocations :
    request[i].sent =>
      /\ NonEmptyStr(request[i].client_id)
      /\ NonEmptyStr(request[i].client_secret)

(***************************************************************************)
(* C6: when the secret store fails and the environment lacks one of the    *)
(* two variables, the invocation ends with an HTTP response of status 500  *)
(* and a non-empty body.                                                   *)
(***************************************************************************)
C6_NoCredentialsIs500 ==
  \A i \in Invocations :
    (Done(i) /\ StoreFailed(i) /\ DOMAIN environ # EnvNames) =>
      /\ ret[i].type = "HttpResponse"
      /\ ret[i].status_code = 500
      /\ ret[i].body # ""

(***************************************************************************)
(* C7: every started invocation ends, in exactly one terminal state        *)
(* (success with the token, or exchange failure with the error; the        *)
(* credential-failure state is never entered), stays there, and executes   *)
(* each statement (identity, secret client, each secret fetch, the token   *)
(* exchange) at most once, whether the statement completed or raised.      *)
(***************************************************************************)
Terminal(i) ==
  LET success == /\ reply[i].kind = "token"
                 /\ ret[i].type = "str"
      exchangeFailure == /\ reply[i].kind = "error"
                         /\ ret[i].type = "HttpResponse"
                         /\ ret[i].status_code = 500
  IN  success # exchangeFailure

C7_AtMostOnce ==
  \A i \in Invocations :
    /\ \A s \in DOMAIN calls[i] : calls[i][s] <= 1
    /\ Done(i) => Terminal(i)
    /\ ~Done(i) => ret[i] = Pending

C7_TerminalStays ==
  \A i \in Invocations :
    Done(i) => /\ pc'[i] = pc[i]
               /\ ret'[i] = ret[i]
               /\ calls'[i] = calls[i]

C7_OneTerminalNoRetry ==
  /\ []C7_AtMostOnce
  /\ [][C7_TerminalStays]_vars
  /\ \A i \in Invocations : (pc[i] # "idle") ~> Done(i)

C7_Witness ==
  \E i \in Invocations :
    /\ Done(i)
    /\ raisedAt[i] = "get_key"
    /\ reply[i].kind = "error"
    /\ calls[i]["fetch_token"] = 1

(***************************************************************************)
(* C8: exchange failures of different kinds (endpoint unreachable,         *)
(* rejected with 401, malformed payload) end in different outcomes, so     *)
(* the kind can be told from what main returns.                            *)
(***************************************************************************)
C8_ErrorKindsDistinct ==
  \A i, j \in Invocations :
    ( /\ reply[i].kind = "error"
      /\ reply[j].kind = "error"
      /\ reply[i].exc.kind # reply[j].exc.kind ) => ret[i] # ret[j]

(***************************************************************************)
(* C9: under every interleaving, an invocation's credentials and returned  *)
(* value are determined by what its own store, environment and endpoint    *)
(* calls returned, a step changes the state of one invocation only, and    *)
(* nothing shared (the environment) is written.                            *)
(***************************************************************************)
C9_OwnResults ==
  \A i \in Invocations :
    /\ request[i].sent =>
         /\ request[i].token_url = token_url
         /\ IF StoreFailed(i) THEN EnvironPair(Sent(i)) ELSE StorePair(i, Sent(i))
    /\ reply[i].kind = "token" => ret[i].value = Dumps(reply[i].token)
    /\ reply[i].kind = "error" => ret[i].body = reply[i].exc.message
    /\ reply[i].kind = "none" => ret[i] = Pending

C9_OwnStateOnly ==
  /\ environ' = environ
  /\ \A i, j \in Invocations :
       (i # j /\ pc'[i] # pc[i]) =>
         /\ pc'[j] = pc[j]
         /\ frame'[j] = frame[j]
         /\ ret'[j] = ret[j]
         /\ secrets'[j] = secrets[j]
         /\ request'[j] = request[j]
         /\ reply'[j] = reply[j]

C9_Independent ==
  /\ []C9_OwnResults
  /\ [][C9_OwnStateOnly]_vars

C9_Witness ==
  \E i, j \in Invocations :
    /\ i # j
    /\ Done(i) /\ Done(j)
    /\ StoreFailed(i) /\ ~StoreFailed(j)
    /\ reply[i].kind = "token" /\ reply[j].kind = "token"
    /\ reply[i].token # reply[j].token
    /\ DOMAIN environ = EnvNames

(***************************************************************************)
(* C10: the credentials of the exchange are both the store's or both the   *)
(* environment's; in particular, when 'project-api-key' was fetched and    *)
(* the fetch of 'client-secret' raised, the fetched key is discarded and   *)
(* both names hold the environment's values.                               *)
(***************************************************************************)
C10_NoMixedOrigin ==
  \A i \in Invocations :
    /\ request[i].sent => (StorePair(i, Sent(i)) \/ EnvironPair(Sent(i)))
    /\ raisedAt[i] = "get_secret" =>
         /\ Len(secrets[i]) = 1
         /\ secrets[i][1].name = "project-api-key"
         /\ EnvironPair(frame[i])
         /\ request[i].sent => EnvironPair(Sent(i))

C10_Witness ==
  \E i \in Invocations :
    /\ raisedAt[i] = "get_secret"
    /\ request[i].sent
    /\ DOMAIN environ = EnvNames

====
